---- MODULE Spec2Model ----
(***************************************************************************)
(* Mighty Mule FM231 driveway alarm decoder                                *)
(* (src/rtl_433/devices/mighty_mulefm231.c).                               *)
(*                                                                         *)
(* The decoder is one function, mightymule_fm231_decode, which the host    *)
(* calls through the decode_fn pointer of the registration descriptor.     *)
(* Each invocation is modelled statement by statement: every host thread   *)
(* has a program counter, its own bit buffer, and its own copies of the    *)
(* function's automatic variables.                                         *)
(***************************************************************************)
EXTENDS Integers, Sequences, FiniteSets

(***************************************************************************)
(* Bounds of the model.                                                    *)
(***************************************************************************)
\* the host delivers bit buffers of 0..MaxRows rows
MaxRows == 2

\* host threads that run the decoder concurrently (specification SpecMT)
NumThreads == 2

(***************************************************************************)
(* Program constants.                                                      *)
(***************************************************************************)
MIGHTYMULE_FM231_BITLEN == 9

\* abort codes of the host's decoder interface (decoder.h)
DECODE_ABORT_LENGTH == 0 - 1

DECODE_ABORT_EARLY == 0 - 2

(***************************************************************************)
(* C integer arithmetic on non-negative values.                            *)
(***************************************************************************)
RECURSIVE Pow2(_)
Pow2(n) ==
    IF n = 0 THEN 1 ELSE 2 * Pow2(n - 1)

\* x << n and x >> n on int: the operands are bytes promoted to int, so no
\* bit is shifted out of the 32-bit intermediate
Shl(x, n) ==
    x * Pow2(n)

Shr(x, n) ==
    x \div Pow2(n)

RECURSIVE BitOr(_, _)
BitOr(x, y) ==
    IF x = 0 THEN y
    ELSE IF y = 0 THEN x
    ELSE (IF (x % 2 = 1) \/ (y % 2 = 1) THEN 1 ELSE 0)
         + 2 * BitOr(x \div 2, y \div 2)

RECURSIVE BitAnd(_, _)
BitAnd(x, y) ==
    IF x = 0 \/ y = 0 THEN 0
    ELSE (IF (x % 2 = 1) /\ (y % 2 = 1) THEN 1 ELSE 0)
         + 2 * BitAnd(x \div 2, y \div 2)

\* conversion to uint16_t
U16(x) ==
    x % Pow2(16)

(***************************************************************************)
(* The expressions of mightymule_fm231_decode.                             *)
(***************************************************************************)
\* if (bitbuffer->num_rows != 1) return DECODE_ABORT_EARLY;
RowsOk_atleast(bitbuf) ==
    bitbuf.num_rows >= 1

RowsOk(bitbuf) ==
    bitbuf.num_rows = 1

\* if (bitbuffer->bits_per_row[0] != MIGHTYMULE_FM231_BITLEN) return DECODE_ABORT_LENGTH;
LengthOk_atleast(bitbuf) ==
    bitbuf.bits_per_row[0] >= MIGHTYMULE_FM231_BITLEN

LengthOk(bitbuf) ==
    bitbuf.bits_per_row[0] = MIGHTYMULE_FM231_BITLEN

\* uint16_t data = (b[0] << 1) | (b[1] >> 7);
DataOf_shift6(b) ==
    U16(BitOr(Shl(b[0], 1), Shr(b[1], 6)))

DataOf(b) ==
    U16(BitOr(Shl(b[0], 1), Shr(b[1], 7)))

\* int battery_raw = (data >> 4) & 0x01;
BatteryRawOf(d) ==
    BitAnd(Shr(d, 4), 1)

\* int battery_ok = !battery_raw;
LogicalNot_same(x) ==
    x

LogicalNot(x) ==
    IF x = 0 THEN 1 ELSE 0

\* int id = data & 0x0F;
IdOf_byte(d) ==
    BitAnd(d, 255)

IdOf(d) ==
    BitAnd(d, 15)

\* data_make("model", "", DATA_STRING, "MightyMule-FM231",
\*           "id", "ID", DATA_INT, id, "battery_ok", "Battery", DATA_INT, battery_ok, NULL)
data_make(i, ok) ==
    << [key |-> "model", pretty |-> "", type |-> "DATA_STRING",
        str |-> "MightyMule-FM231", int |-> 0],
       [key |-> "id", pretty |-> "ID", type |-> "DATA_INT",
        str |-> "", int |-> i],
       [key |-> "battery_ok", pretty |-> "Battery", type |-> "DATA_INT",
        str |-> "", int |-> ok] >>

(***************************************************************************)
(* The registration descriptor.                                            *)
(***************************************************************************)
output_fields_short ==
    << "model", "id" >>

output_fields ==
    << "model", "id", "battery_ok" >>

mightymule_fm231 ==
    [ name        |-> "Mighty Mule FM231 Driveway Alarm",
      modulation  |-> "OOK_PULSE_PWM",
      short_width |-> 650,
      long_width  |-> 1200,
      sync_width  |-> 3800,
      gap_limit   |-> 1100,
      reset_limit |-> 1100,
      tolerance   |-> 200,
      decode_fn   |-> "mightymule_fm231_decode",
      fields      |-> output_fields ]

(***************************************************************************)
(* Bit buffers the host may deliver.  A buffer has a row count, a bit      *)
(* length per row and the bytes of each row; the decoder reads bytes 0 and *)
(* 1 of row 0 only, so two bytes per row are kept.  Rows that are not in   *)
(* use are cleared.                                                        *)
(***************************************************************************)
Rows == 0 .. (MaxRows - 1)

Bytes == 0 .. 255

\* bit lengths of row 0: empty, one short, exact, one long, two full bytes
BitLens ==
    { 0, MIGHTYMULE_FM231_BITLEN - 1, MIGHTYMULE_FM231_BITLEN,
      MIGHTYMULE_FM231_BITLEN + 1, 16 }

\* byte 1 of row 0: bit 8 of the row set or clear, and the seven bits after
\* it all clear, all set, or exactly one set
TrailVals ==
    { 0, 127 } \cup { Pow2(k) : k \in 0 .. 6 }

Byte1Vals ==
    { 128 * top + tr : top \in 0 .. 1, tr \in TrailVals }

RowLens(n, lens) ==
    { f \in [Rows -> lens \cup { 0 }] :
        /\ f[0] \in lens
        /\ \A r \in Rows \ { 0 } :
              IF r < n THEN f[r] \in { 0, MIGHTYMULE_FM231_BITLEN }
                       ELSE f[r] = 0 }

MkBuf(n, l, b0, b1) ==
    [ num_rows     |-> n,
      bits_per_row |-> l,
      bb           |-> [r \in Rows |->
                          IF r = 0 THEN [c \in 0 .. 1 |-> IF c = 0 THEN b0 ELSE b1]
                                   ELSE [c \in 0 .. 1 |-> 0]] ]

BufSet(nrows, lens, b0s, b1s) ==
    UNION { { MkBuf(n, l, b0, b1) : l \in RowLens(n, lens), b0 \in b0s, b1 \in b1s } :
            n \in nrows }

\* a small pool for the specifications that run several invocations
SmallInputs ==
    BufSet(0 .. MaxRows, { MIGHTYMULE_FM231_BITLEN - 1, MIGHTYMULE_FM231_BITLEN },
           { 8, 247 }, { 0, 255 })

\* a cleared buffer (no rows)
EmptyBuf ==
    MkBuf(0, [r \in Rows |-> 0], 0, 0)

(***************************************************************************)
(* State.                                                                  *)
(***************************************************************************)
VARIABLES
    pc,           \* per thread: the statement the invocation is at
    bitbuffer,    \* per thread: the bit buffer passed to the invocation
    data,         \* per thread: uint16_t data
    battery_raw,  \* per thread: int battery_raw
    battery_ok,   \* per thread: int battery_ok
    id,           \* per thread: int id
    output,       \* per thread: data_t *output (the record built by data_make)
    ret,          \* per thread: the value returned by the invocation
    sink,         \* per thread: records passed to decoder_output_data by the invocation
    logs,         \* per thread: decoder_logf calls made by the invocation
    entry,        \* history: the bit buffer as it was when the invocation began
    earlier       \* history: one earlier invocation of the thread, with its outcome

locals == << data, battery_raw, battery_ok, id, output >>

vars == << pc, bitbuffer, data, battery_raw, battery_ok, id, output, ret, sink,
           logs, entry, earlier >>

\* the threads of the host, and those that exist in this run
Procs == 1 .. NumThreads

Threads == DOMAIN pc

NoEarlier ==
    [ valid |-> FALSE, buf |-> EmptyBuf, ret |-> 0, sink |-> << >> ]

\* the state of the threads ts at the entry of mightymule_fm231_decode, each
\* with the bit buffer bufs[t]
Entered(ts, bufs) ==
    /\ pc = [t \in ts |-> "check_rows"]
    /\ bitbuffer = bufs
    /\ entry = bufs
    /\ data = [t \in ts |-> 0]
    /\ battery_raw = [t \in ts |-> 0]
    /\ battery_ok = [t \in ts |-> 0]
    /\ id = [t \in ts |-> 0]
    /\ output = [t \in ts |-> << >>]
    /\ ret = [t \in ts |-> 0]
    /\ sink = [t \in ts |-> << >>]
    /\ logs = [t \in ts |-> << >>]
    /\ earlier = [t \in ts |-> NoEarlier]

\* one invocation on any buffer: every shape, every value of the first nine
\* bits of row 0, the bits after them sampled
Init ==
    \E n \in 0 .. MaxRows, b0 \in Bytes, b1 \in Byte1Vals :
       \E l \in RowLens(n, BitLens) :
          Entered({ 1 }, [t \in { 1 } |-> MkBuf(n, l, b0, b1)])

\* NumThreads invocations running concurrently, each on its own buffer
InitMT ==
    \E bufs \in [1 .. NumThreads -> SmallInputs] : Entered(1 .. NumThreads, bufs)

\* a host thread that has not called the decoder yet
InitSeq ==
    /\ pc = [t \in { 1 } |-> "idle"]
    /\ bitbuffer = [t \in { 1 } |-> EmptyBuf]
    /\ entry = [t \in { 1 } |-> EmptyBuf]
    /\ data = [t \in { 1 } |-> 0]
    /\ battery_raw = [t \in { 1 } |-> 0]
    /\ battery_ok = [t \in { 1 } |-> 0]
    /\ id = [t \in { 1 } |-> 0]
    /\ output = [t \in { 1 } |-> << >>]
    /\ ret = [t \in { 1 } |-> 0]
    /\ sink = [t \in { 1 } |-> << >>]
    /\ logs = [t \in { 1 } |-> << >>]
    /\ earlier = [t \in { 1 } |-> NoEarlier]

(***************************************************************************)
(* The statements of mightymule_fm231_decode.                              *)
(***************************************************************************)
\* thread t exists and its invocation is at the statement label
At(t, label) ==
    t \in Threads /\ pc[t] = label

Goto(t, label) ==
    pc' = [pc EXCEPT ![t] = label]

Return(t, code) ==
    /\ pc' = [pc EXCEPT ![t] = "returned"]
    /\ ret' = [ret EXCEPT ![t] = code]

\* if (bitbuffer->num_rows != 1) return DECODE_ABORT_EARLY;
CheckRows(t) ==
    /\ At(t, "check_rows")
    /\ IF RowsOk(bitbuffer[t])
          THEN Goto(t, "check_len") /\ UNCHANGED ret
          ELSE Return(t, DECODE_ABORT_EARLY)
    /\ UNCHANGED << bitbuffer, locals, sink, logs, entry, earlier >>

\* if (bitbuffer->bits_per_row[0] != MIGHTYMULE_FM231_BITLEN) return DECODE_ABORT_LENGTH;
CheckLength(t) ==
    /\ At(t, "check_len")
    /\ IF LengthOk(bitbuffer[t])
          THEN Goto(t, "extract") /\ UNCHANGED ret
          ELSE Return(t, DECODE_ABORT_LENGTH)
    /\ UNCHANGED << bitbuffer, locals, sink, logs, entry, earlier >>

\* the statement with b[1] shifted in place:  b[1] >>= 7; data = (b[0] << 1) | b[1];
ExtractData_inplace(t) ==
    /\ At(t, "extract")
    /\ bitbuffer' = [bitbuffer EXCEPT ![t].bb[0][1] = Shr(@, 7)]
    /\ data' = [data EXCEPT ![t] = DataOf(bitbuffer[t].bb[0])]
    /\ Goto(t, "battery_raw")
    /\ UNCHANGED << battery_raw, battery_ok, id, output, ret, sink, logs, entry, earlier >>

\* the statement with data declared static: one object shared by all invocations
ExtractData_static(t) ==
    /\ At(t, "extract")
    /\ data' = [u \in Threads |-> DataOf(bitbuffer[t].bb[0])]
    /\ Goto(t, "battery_raw")
    /\ UNCHANGED << bitbuffer, battery_raw, battery_ok, id, output, ret, sink, logs,
                    entry, earlier >>

\* uint8_t *b = bitbuffer->bb[0];  uint16_t data = (b[0] << 1) | (b[1] >> 7);
ExtractData(t) ==
    /\ At(t, "extract")
    /\ data' = [data EXCEPT ![t] = DataOf(bitbuffer[t].bb[0])]
    /\ Goto(t, "battery_raw")
    /\ UNCHANGED << bitbuffer, battery_raw, battery_ok, id, output, ret, sink, logs,
                    entry, earlier >>

\* int battery_raw = (data >> 4) & 0x01;
ExtractBatteryRaw(t) ==
    /\ At(t, "battery_raw")
    /\ battery_raw' = [battery_raw EXCEPT ![t] = BatteryRawOf(data[t])]
    /\ Goto(t, "battery_ok")
    /\ UNCHANGED << bitbuffer, data, battery_ok, id, output, ret, sink, logs, entry,
                    earlier >>

\* int battery_ok = !battery_raw;
InvertBattery(t) ==
    /\ At(t, "battery_ok")
    /\ battery_ok' = [battery_ok EXCEPT ![t] = LogicalNot(battery_raw[t])]
    /\ Goto(t, "id")
    /\ UNCHANGED << bitbuffer, data, battery_raw, id, output, ret, sink, logs, entry,
                    earlier >>

\* the statement accumulating into id:  id |= data & 0x0F;
ExtractId_accumulate(t) ==
    /\ At(t, "id")
    /\ id' = [id EXCEPT ![t] = BitOr(@, IdOf(data[t]))]
    /\ Goto(t, "log")
    /\ UNCHANGED << bitbuffer, data, battery_raw, battery_ok, output, ret, sink, logs,
                    entry, earlier >>

\* int id = data & 0x0F;
ExtractId(t) ==
    /\ At(t, "id")
    /\ id' = [id EXCEPT ![t] = IdOf(data[t])]
    /\ Goto(t, "log")
    /\ UNCHANGED << bitbuffer, data, battery_raw, battery_ok, output, ret, sink, logs,
                    entry, earlier >>

\* decoder_logf(decoder, 2, __func__, "Data: %03x, ...", data, battery_raw, battery_ok, id);
LogDecoded(t) ==
    /\ At(t, "log")
    /\ logs' = [logs EXCEPT ![t] =
                  Append(@, [ level |-> 2, func |-> "mightymule_fm231_decode",
                              args |-> << data[t], battery_raw[t], battery_ok[t],
                                          id[t] >> ])]
    /\ Goto(t, "make")
    /\ UNCHANGED << bitbuffer, locals, ret, sink, entry, earlier >>

\* data_t *output = data_make(...);
MakeOutput(t) ==
    /\ At(t, "make")
    /\ output' = [output EXCEPT ![t] = data_make(id[t], battery_ok[t])]
    /\ Goto(t, "emit")
    /\ UNCHANGED << bitbuffer, data, battery_raw, battery_ok, id, ret, sink, logs,
                    entry, earlier >>

\* the statement ending in  return 0;
OutputData_return0(t) ==
    /\ At(t, "emit")
    /\ sink' = [sink EXCEPT ![t] = Append(@, output[t])]
    /\ Return(t, 0)
    /\ UNCHANGED << bitbuffer, locals, logs, entry, earlier >>

\* decoder_output_data(decoder, output);  return 1;
OutputData(t) ==
    /\ At(t, "emit")
    /\ sink' = [sink EXCEPT ![t] = Append(@, output[t])]
    /\ Return(t, 1)
    /\ UNCHANGED << bitbuffer, locals, logs, entry, earlier >>

\* the host calls decode_fn on a buffer; the automatic variables of the new
\* invocation occupy the storage of the previous one and start with whatever
\* it left there.  The history variable keeps the outcome of the invocation
\* that has just returned, or the one it already holds.
Invoke(t) ==
    /\ At(t, "idle") \/ At(t, "returned")
    /\ \E buf \in SmallInputs :
          /\ bitbuffer' = [bitbuffer EXCEPT ![t] = buf]
          /\ entry' = [entry EXCEPT ![t] = buf]
    /\ \E keep \in BOOLEAN :
          earlier' = IF pc[t] = "returned" /\ ~keep
                        THEN [earlier EXCEPT ![t] =
                                [ valid |-> TRUE, buf |-> bitbuffer[t],
                                  ret |-> ret[t], sink |-> sink[t] ]]
                        ELSE earlier
    /\ Goto(t, "check_rows")
    /\ ret' = [ret EXCEPT ![t] = 0]
    /\ sink' = [sink EXCEPT ![t] = << >>]
    /\ logs' = [logs EXCEPT ![t] = << >>]
    /\ UNCHANGED locals

\* the statements, for every thread the host may run
Next ==
    \/ \E t \in Procs : CheckRows(t)
    \/ \E t \in Procs : CheckLength(t)
    \/ \E t \in Procs : ExtractData(t)
    \/ \E t \in Procs : ExtractBatteryRaw(t)
    \/ \E t \in Procs : InvertBattery(t)
    \/ \E t \in Procs : ExtractId(t)
    \/ \E t \in Procs : LogDecoded(t)
    \/ \E t \in Procs : MakeOutput(t)
    \/ \E t \in Procs : OutputData(t)

NextSeq ==
    \/ \E t \in Procs : Invoke(t)
    \/ Next

\* one invocation on any deliverable buffer
Spec == Init /\ [][Next]_vars

\* concurrent invocations on distinct buffers
SpecMT == InitMT /\ [][Next]_vars

\* a thread calling the decoder again and again
SpecSeq == InitSeq /\ [][NextSeq]_vars
(***************************************************************************)
(* Vocabulary of the properties.                                           *)
(***************************************************************************)
Range(f) == { f[x] : x \in DOMAIN f }

\* bit i of a row, counted from the most significant bit of byte 0
Bit(row, i) ==
    (row[i \div 8] \div Pow2(7 - (i % 8))) % 2

\* the first n bits of a row read as an unsigned number, first bit highest
RECURSIVE MsbFirst(_, _)
MsbFirst(row, n) ==
    IF n = 0 THEN 0 ELSE 2 * MsbFirst(row, n - 1) + Bit(row, n - 1)

\* the row with its first four bits replaced by the bits of hi
WithFirst4(row, hi) ==
    [row EXCEPT ![0] = 16 * hi + (@ % 16)]

\* the row with the seven bits after bit 8 replaced by the bits of tr
WithTrailing(row, tr) ==
    [row EXCEPT ![1] = 128 * (@ \div 128) + tr]

\* one row of exactly nine bits
Valid(buf) ==
    buf.num_rows = 1 /\ buf.bits_per_row[0] = 9

Returned(t) ==
    t \in Threads /\ pc[t] = "returned"

Keys(rec) == { rec[i].key : i \in DOMAIN rec }

Field(rec, k) == rec[CHOOSE i \in DOMAIN rec : rec[i].key = k]

\* the record the statements of the decoder build from a row, run in order
RecordOf(row) ==
    data_make(IdOf(DataOf(row)), LogicalNot(BatteryRawOf(DataOf(row))))

\* the outcome of an invocation that runs alone on buf: return value and records
AloneRet(buf) ==
    IF ~RowsOk(buf) THEN DECODE_ABORT_EARLY
    ELSE IF ~LengthOk(buf) THEN DECODE_ABORT_LENGTH
    ELSE 1

AloneSink(buf) ==
    IF RowsOk(buf) /\ LengthOk(buf) THEN << RecordOf(buf.bb[0]) >> ELSE << >>

(***************************************************************************)
(* C1.  On one row of exactly 9 bits the decoder returns 1 and emits one   *)
(* record with model = "MightyMule-FM231", id = data & 0xF and             *)
(* battery_ok = 1 - ((data >> 4) & 1), data being the 9 bits read          *)
(* MSB-first; the four scenarios of the specification are instances.       *)
(***************************************************************************)
C1_DecodeFields ==
    \A t \in Threads :
       Returned(t) /\ Valid(bitbuffer[t]) =>
          LET d == MsbFirst(bitbuffer[t].bb[0], 9) IN
          /\ ret[t] = 1
          /\ Len(sink[t]) = 1
          /\ Field(sink[t][1], "model").str = "MightyMule-FM231"
          /\ Field(sink[t][1], "id").int = d % 16
          /\ Field(sink[t][1], "battery_ok").int = 1 - ((d \div 16) % 2)
          /\ d = 0 => Field(sink[t][1], "battery_ok").int = 1
                      /\ Field(sink[t][1], "id").int = 0
          /\ d = 16 => Field(sink[t][1], "battery_ok").int = 0
                       /\ Field(sink[t][1], "id").int = 0
          /\ d = 15 => Field(sink[t][1], "battery_ok").int = 1
                       /\ Field(sink[t][1], "id").int = 15
          /\ d = 511 => Field(sink[t][1], "battery_ok").int = 0
                        /\ Field(sink[t][1], "id").int = 15

\* a low-battery reading has been decoded
C1_Witness ==
    \E t \in Threads :
       /\ Returned(t) /\ Valid(bitbuffer[t])
       /\ MsbFirst(bitbuffer[t].bb[0], 9) = 511
       /\ ret[t] = 1
       /\ Field(sink[t][1], "battery_ok").int = 0

(***************************************************************************)
(* C2.  Whenever the buffer does not have exactly one row, whatever the    *)
(* bit lengths of its rows, the decoder returns DECODE_ABORT_EARLY.        *)
(***************************************************************************)
C2_AbortEarly ==
    \A t \in Threads :
       Returned(t) /\ bitbuffer[t].num_rows # 1 => ret[t] = DECODE_ABORT_EARLY

\* a two-row buffer whose row 0 has exactly nine bits was rejected
C2_Witness ==
    \E t \in Threads :
       /\ Returned(t)
       /\ bitbuffer[t].num_rows = 2
       /\ bitbuffer[t].bits_per_row[0] = 9
       /\ ret[t] = DECODE_ABORT_EARLY

(***************************************************************************)
(* C3.  On a single row whose bit length is not 9 the decoder returns      *)
(* DECODE_ABORT_LENGTH, whatever the bits of the row.                      *)
(***************************************************************************)
C3_AbortLength ==
    \A t \in Threads :
       Returned(t) /\ bitbuffer[t].num_rows = 1 /\ bitbuffer[t].bits_per_row[0] # 9
          => ret[t] = DECODE_ABORT_LENGTH

\* a single row of ten bits, not all zero, was rejected
C3_Witness ==
    \E t \in Threads :
       /\ Returned(t)
       /\ bitbuffer[t].num_rows = 1
       /\ bitbuffer[t].bits_per_row[0] = 10
       /\ bitbuffer[t].bb[0][0] = 255
       /\ ret[t] = DECODE_ABORT_LENGTH

(***************************************************************************)
(* C4.  The return value is 1, DECODE_ABORT_EARLY or DECODE_ABORT_LENGTH;  *)
(* exactly one record has been passed to the output sink when it is 1, and *)
(* no record and no log call has been made when it is an abort code.       *)
(***************************************************************************)
C4_RecordIffSuccess ==
    \A t \in Threads :
       /\ Len(sink[t]) <= 1
       /\ Returned(t) =>
             /\ ret[t] \in { 1, DECODE_ABORT_EARLY, DECODE_ABORT_LENGTH }
             /\ ret[t] = 1 <=> Len(sink[t]) = 1
             /\ ret[t] # 1 => sink[t] = << >> /\ logs[t] = << >>

\* a successful invocation has emitted its record
C4_Witness ==
    \E t \in Threads :
       Returned(t) /\ ret[t] = 1 /\ Len(sink[t]) = 1 /\ Len(logs[t]) = 1

(***************************************************************************)
(* C5.  The first 4 bits of the row have no influence: on a valid buffer   *)
(* the decoder returns 1, the record is determined by bits 4..8 alone, and *)
(* it is the record of every row that differs only in bits 0..3.           *)
(***************************************************************************)
C5_First4Ignored ==
    \A t \in Threads :
       Returned(t) /\ Valid(bitbuffer[t]) =>
          LET row == bitbuffer[t].bb[0] IN
          /\ ret[t] = 1
          /\ Len(sink[t]) = 1
          /\ Field(sink[t][1], "id").int =
                8 * Bit(row, 5) + 4 * Bit(row, 6) + 2 * Bit(row, 7) + Bit(row, 8)
          /\ Field(sink[t][1], "battery_ok").int = 1 - Bit(row, 4)
          /\ \A hi \in 0 .. 15 : sink[t] = << RecordOf(WithFirst4(row, hi)) >>

\* a row whose first four bits are 1010 has been decoded
C5_Witness ==
    \E t \in Threads :
       /\ Returned(t) /\ Valid(bitbuffer[t])
       /\ bitbuffer[t].bb[0][0] \div 16 = 10
       /\ ret[t] = 1

(***************************************************************************)
(* C6.  Decoding is deterministic and stateless: an invocation on a buffer *)
(* returns the same value and emits the same records as any earlier        *)
(* invocation on that buffer, whatever was decoded in between.             *)
(***************************************************************************)
C6_Deterministic ==
    \A t \in Threads :
       Returned(t) /\ earlier[t].valid /\ earlier[t].buf = bitbuffer[t] =>
          ret[t] = earlier[t].ret /\ sink[t] = earlier[t].sink

\* a buffer that was decoded successfully before has been decoded again
C6_Witness ==
    \E t \in Threads :
       /\ Returned(t) /\ earlier[t].valid /\ earlier[t].buf = bitbuffer[t]
       /\ ret[t] = 1
       /\ Len(earlier[t].sink) = 1

(***************************************************************************)
(* C7.  The decoder never modifies the bit buffer: at every statement and  *)
(* after the return, on every path, the row count, the bit lengths and the *)
(* row bytes are those the buffer had when the invocation began.           *)
(***************************************************************************)
C7_BufferUntouched ==
    \A t \in Threads : bitbuffer[t] = entry[t]

\* a successful invocation has returned on a row with bits set after bit 8
C7_Witness ==
    \E t \in Threads :
       /\ Returned(t) /\ ret[t] = 1
       /\ bitbuffer[t].bb[0][1] = 255
       /\ bitbuffer[t] = entry[t]

(***************************************************************************)
(* C8.  Under every interleaving of concurrent invocations on their own    *)
(* buffers, each invocation returns the value and emits the records it     *)
(* produces when it runs alone on its buffer.                              *)
(***************************************************************************)
C8_NoInterference ==
    \A t \in Threads :
       Returned(t) =>
          /\ ret[t] = AloneRet(bitbuffer[t])
          /\ sink[t] = AloneSink(bitbuffer[t])

\* two invocations on different buffers have both decoded, with different records
C8_Witness ==
    \E t \in Threads, u \in Threads :
       /\ t # u
       /\ Returned(t) /\ Returned(u)
       /\ ret[t] = 1 /\ ret[u] = 1
       /\ bitbuffer[t] # bitbuffer[u]
       /\ sink[t] # sink[u]

(***************************************************************************)
(* C9.  The keys of every emitted record are exactly the names in the      *)
(* field list of the registration descriptor: model, id, battery_ok.       *)
(***************************************************************************)
C9_FieldsMatch ==
    \A t \in Threads :
       \A i \in 1 .. Len(sink[t]) :
          /\ Keys(sink[t][i]) = Range(mightymule_fm231.fields)
          /\ Keys(sink[t][i]) = { "model", "id", "battery_ok" }
          /\ Cardinality(Keys(sink[t][i])) = Len(sink[t][i])

\* a record has been emitted
C9_Witness ==
    \E t \in Threads : Returned(t) /\ Len(sink[t]) = 1 /\ Len(sink[t][1]) = 3

(***************************************************************************)
(* C10.  On a valid buffer data is the value of the first 9 bits of the    *)
(* row read MSB-first, lies in 0..511, and is the same for every content   *)
(* of the 7 bits after them; so are id and battery_ok and the record.      *)
(***************************************************************************)
C10_NineBits ==
    \A t \in Threads :
       Valid(bitbuffer[t])
       /\ pc[t] \in { "battery_raw", "battery_ok", "id", "log", "make", "emit",
                      "returned" } =>
          LET row == bitbuffer[t].bb[0] IN
          /\ data[t] = MsbFirst(row, 9)
          /\ data[t] \in 0 .. 511
          /\ \A tr \in 0 .. 127 : DataOf(WithTrailing(row, tr)) = data[t]
          /\ pc[t] = "returned" =>
                /\ id[t] = MsbFirst(row, 9) % 16
                /\ battery_ok[t] = 1 - ((MsbFirst(row, 9) \div 16) % 2)
                /\ \A tr \in 0 .. 127 : sink[t] = << RecordOf(WithTrailing(row, tr)) >>

\* a row with all seven trailing bits set has been decoded
C10_Witness ==
    \E t \in Threads :
       /\ Returned(t) /\ Valid(bitbuffer[t])
       /\ bitbuffer[t].bb[0][1] % 128 = 127
       /\ data[t] = MsbFirst(bitbuffer[t].bb[0], 9)
====
